---- MODULE Spec2Model ----
(***************************************************************************)
(* Model of retina's subscription action-resolution engine                 *)
(* (core/src/filter/datatypes.rs): Level, DataType, MatchingActions and    *)
(* SubscriptionSpec.  A SubscriptionSpec is built by `new` followed by     *)
(* `add_datatype` calls; every other method is a read-only query of the    *)
(* subscription whose outcome (a value or a panic) is recorded in `out`.   *)
(***************************************************************************)
EXTENDS Integers, Sequences, FiniteSets, TLC

\* Largest number of datatypes added to one subscription.
MaxDatatypes == 3

(***************************************************************************)
(* Closed variant types                                                    *)
(***************************************************************************)
\* enum Level
Level == {"Packet", "Connection", "Session", "Static"}

\* enum FilterLayer (super::ptree), the six pipeline stages
FilterLayer ==
    {"PacketContinue", "Packet", "Protocol", "Session", "ConnectionDeliver", "PacketDeliver"}

\* The flags of ActionData (super::ActionData) written by this file
ActionData ==
    {"PacketContinue", "PacketTrack", "PacketDeliver", "ProtoProbe", "ProtoFilter",
     "SessionTrack", "SessionDeliver", "SessionFilter", "ConnDeliver", "UpdatePDU",
     "ReassembledUpdatePDU"}

\* Predicate (super::ast): the three capability queries of a filter predicate
Predicate == [on_packet : BOOLEAN, on_proto : BOOLEAN, on_session : BOOLEAN]

\* Actions::new(): no flag in data nor in terminal_actions
Actions_new == [data |-> {}, terminal_actions |-> {}]

\* Actions::push: union-merge of both flag sets
Actions_push(self, actions) ==
    [data |-> self.data \cup actions.data,
     terminal_actions |-> self.terminal_actions \cup actions.terminal_actions]

(***************************************************************************)
(* DataType                                                                *)
(***************************************************************************)
new_default_connection(as_str) ==
    [level |-> "Connection", needs_parse |-> FALSE, track_sessions |-> FALSE,
     needs_update |-> TRUE, needs_update_reassembled |-> FALSE,
     track_packets |-> FALSE, stream_protos |-> <<>>, as_str |-> as_str]

new_default_session(as_str, stream_protos) ==
    [level |-> "Session", needs_parse |-> TRUE, track_sessions |-> FALSE,
     needs_update |-> FALSE, needs_update_reassembled |-> FALSE,
     track_packets |-> FALSE, stream_protos |-> stream_protos, as_str |-> as_str]

new_default_packet(as_str) ==
    [level |-> "Packet", needs_parse |-> FALSE, track_sessions |-> FALSE,
     needs_update |-> FALSE, needs_update_reassembled |-> FALSE,
     track_packets |-> FALSE, stream_protos |-> <<>>, as_str |-> as_str]

new_default_static(as_str) ==
    [level |-> "Static", needs_parse |-> FALSE, track_sessions |-> FALSE,
     needs_update |-> FALSE, needs_update_reassembled |-> FALSE,
     track_packets |-> FALSE, stream_protos |-> <<>>, as_str |-> as_str]

\* The four default datatypes
DefaultDataTypes ==
    {new_default_connection("Connection"), new_default_session("Session", <<>>),
     new_default_packet("Packet"), new_default_static("Static")}

\* A datatype built field by field (all fields of DataType are pub): a
\* Static-level datatype, which every subscription level admits, with every
\* flag the default constructors leave clear set.
CustomDataTypes ==
    {[level |-> "Static", needs_parse |-> TRUE, track_sessions |-> TRUE,
      needs_update |-> TRUE, needs_update_reassembled |-> TRUE,
      track_packets |-> TRUE, stream_protos |-> <<"tls">>, as_str |-> "StaticFull"]}

\* The datatypes a caller may add
DataTypes == DefaultDataTypes \cup CustomDataTypes

\* DataType::should_deliver with the Packet stage taken for a delivery stage
\* of a Packet-level datatype
DataType_should_deliver_at_packet(self, filter_layer, pred, subscription_level) ==
    CASE self.level = "Packet" ->
            (CASE filter_layer = "PacketContinue" -> pred.on_packet
               [] filter_layer = "Protocol" -> pred.on_proto
               [] filter_layer = "Session" -> pred.on_session
               [] filter_layer \in {"PacketDeliver", "Packet"} -> TRUE
               [] filter_layer = "ConnectionDeliver" -> FALSE)
      [] self.level = "Connection" -> filter_layer = "ConnectionDeliver"
      [] self.level = "Session" -> filter_layer = "Session"
      [] self.level = "Static" ->
            IF subscription_level # "Static"
            THEN FALSE
            ELSE IF pred.on_packet
                 THEN filter_layer = "Packet"
                 ELSE filter_layer = "ConnectionDeliver"

\* DataType::should_deliver: is this filter layer the earliest at which this
\* datatype, with this filter, can be delivered
DataType_should_deliver(self, filter_layer, pred, subscription_level) ==
    CASE self.level = "Packet" ->
            (CASE filter_layer = "PacketContinue" -> pred.on_packet
               [] filter_layer = "Protocol" -> pred.on_proto
               [] filter_layer = "Session" -> pred.on_session
               [] filter_layer = "PacketDeliver" -> TRUE
               [] filter_layer \in {"ConnectionDeliver", "Packet"} -> FALSE)
      [] self.level = "Connection" -> filter_layer = "ConnectionDeliver"
      [] self.level = "Session" -> filter_layer = "Session"
      [] self.level = "Static" ->
            IF subscription_level # "Static"
            THEN FALSE
            ELSE IF pred.on_packet
                 THEN filter_layer = "Packet"
                 ELSE filter_layer = "ConnectionDeliver"

\* DataType::can_deliver with a Session-level datatype deliverable at the
\* Session stage only
DataType_can_deliver_session_only(self, filter_layer, pred) ==
    CASE self.level = "Packet" ->
            (CASE filter_layer = "PacketContinue" -> pred.on_packet
               [] filter_layer = "Protocol" -> pred.on_proto \/ pred.on_packet
               [] OTHER -> TRUE)
      [] self.level = "Connection" -> filter_layer = "ConnectionDeliver"
      [] self.level = "Session" -> filter_layer = "Session"
      [] self.level = "Static" -> TRUE

\* DataType::can_deliver with a Session-level datatype taken for deliverable
\* from the Protocol stage on
DataType_can_deliver_session_early(self, filter_layer, pred) ==
    CASE self.level = "Packet" ->
            (CASE filter_layer = "PacketContinue" -> pred.on_packet
               [] filter_layer = "Protocol" -> pred.on_proto \/ pred.on_packet
               [] OTHER -> TRUE)
      [] self.level = "Connection" -> filter_layer = "ConnectionDeliver"
      [] self.level = "Session" ->
            filter_layer \in {"Protocol", "Session", "ConnectionDeliver"}
      [] self.level = "Static" -> TRUE

\* DataType::can_deliver: could this datatype be delivered at this filter layer
DataType_can_deliver(self, filter_layer, pred) ==
    CASE self.level = "Packet" ->
            (CASE filter_layer = "PacketContinue" -> pred.on_packet
               [] filter_layer = "Protocol" -> pred.on_proto \/ pred.on_packet
               [] OTHER -> TRUE)
      [] self.level = "Connection" -> filter_layer = "ConnectionDeliver"
      [] self.level = "Session" -> filter_layer \in {"Session", "ConnectionDeliver"}
      [] self.level = "Static" -> TRUE

(***************************************************************************)
(* MatchingActions                                                         *)
(***************************************************************************)
\* MatchingActions::new
MatchingActions_new == [if_matched |-> Actions_new, if_matching |-> Actions_new]

\* MatchingActions::push replacing the accumulated actions instead of merging
MatchingActions_push_overwrite(self, actions) == actions

\* MatchingActions::push
MatchingActions_push(self, actions) ==
    [if_matched |-> Actions_push(self.if_matched, actions.if_matched),
     if_matching |-> Actions_push(self.if_matching, actions.if_matching)]

\* `actions.if_matched.data |= flag`
OrMatchedData(actions, flag) ==
    [actions EXCEPT !.if_matched.data = @ \cup {flag}]

\* `actions.if_matched.terminal_actions |= flag`
OrMatchedTerminal(actions, flag) ==
    [actions EXCEPT !.if_matched.terminal_actions = @ \cup {flag}]

\* `actions.if_matching.data |= flag`
OrMatchingData(actions, flag) ==
    [actions EXCEPT !.if_matching.data = @ \cup {flag}]

\* The outcome of a call that tripped assert!(matches!(sub_level, Level::Packet))
AssertionPanic == [panic |-> "assertion failed: matches!(sub_level, Level::Packet)"]

\* DataType::needs_update leaving if_matching out of the update flags
DataType_needs_update_matched_only(self, actions) ==
    LET a1 == IF self.needs_update
              THEN OrMatchedTerminal(OrMatchedData(actions, "UpdatePDU"), "UpdatePDU")
              ELSE actions
    IN  IF self.needs_update_reassembled
        THEN OrMatchedTerminal(OrMatchedData(a1, "ReassembledUpdatePDU"),
                               "ReassembledUpdatePDU")
        ELSE a1

\* DataType::needs_update (helper)
DataType_needs_update(self, actions) ==
    LET a1 == IF self.needs_update
              THEN OrMatchingData(
                       OrMatchedTerminal(OrMatchedData(actions, "UpdatePDU"), "UpdatePDU"),
                       "UpdatePDU")
              ELSE actions
    IN  IF self.needs_update_reassembled
        THEN OrMatchingData(
                 OrMatchedTerminal(OrMatchedData(a1, "ReassembledUpdatePDU"),
                                   "ReassembledUpdatePDU"),
                 "ReassembledUpdatePDU")
        ELSE a1

\* DataType::track_packets (helper)
DataType_track_packets(self, actions) ==
    IF self.track_packets
    THEN OrMatchingData(
             OrMatchedTerminal(OrMatchedData(actions, "PacketTrack"), "PacketTrack"),
             "PacketTrack")
    ELSE actions

\* DataType::track_sessions (helper for proto_filter and session_filter)
DataType_track_sessions(self, actions, sub_level) ==
    IF sub_level = "Connection" /\ (self.level = "Session" \/ self.needs_parse)
    THEN OrMatchedData(actions, "SessionTrack")
    ELSE actions

\* DataType::conn_deliver
DataType_conn_deliver(self, sub_level, actions) ==
    IF sub_level = "Connection"
    THEN OrMatchedTerminal(OrMatchedData(actions, "ConnDeliver"), "ConnDeliver")
    ELSE actions

\* DataType::packet_filter: actions for the first packet in a connection
DataType_packet_filter(self, sub_level) ==
    IF self.level = "Packet" /\ sub_level # "Packet"
    THEN AssertionPanic
    ELSE
    LET a0 == MatchingActions_new
        a1 == IF self.level = "Packet" THEN OrMatchingData(a0, "PacketTrack") ELSE a0
        a2 == DataType_needs_update(self, a1)
        a3 == DataType_track_packets(self, a2)
        a4 == DataType_conn_deliver(self, sub_level, a3)
        a5 == IF self.needs_parse
              THEN LET p == OrMatchedTerminal(OrMatchedData(a4, "ProtoProbe"), "ProtoProbe")
                   IN  IF sub_level = "Connection"
                       THEN OrMatchedTerminal(OrMatchedData(p, "SessionTrack"),
                                              "SessionTrack")
                       ELSE p
              ELSE a4
    IN  IF self.level = "Session"
        THEN OrMatchedTerminal(OrMatchedData(a5, "SessionDeliver"), "SessionDeliver")
        ELSE a5

\* DataType::proto_filter without the tracking of packets while still matching
DataType_proto_filter_no_track(self, sub_level) ==
    IF self.level = "Packet" /\ sub_level # "Packet"
    THEN AssertionPanic
    ELSE
    LET a0 == MatchingActions_new
        a1 == IF self.level = "Packet"
              THEN OrMatchedTerminal(OrMatchedData(a0, "PacketDeliver"), "PacketDeliver")
              ELSE a0
        a2 == DataType_needs_update(self, a1)
        a3 == DataType_track_packets(self, a2)
        a4 == DataType_track_sessions(self, a3, sub_level)
        a5 == DataType_conn_deliver(self, sub_level, a4)
    IN  IF sub_level = "Session" THEN OrMatchedData(a5, "SessionDeliver") ELSE a5

\* DataType::proto_filter: actions when the protocol is identified
DataType_proto_filter(self, sub_level) ==
    IF self.level = "Packet" /\ sub_level # "Packet"
    THEN AssertionPanic
    ELSE
    LET a0 == MatchingActions_new
        a1 == IF self.level = "Packet"
              THEN OrMatchingData(
                       OrMatchedTerminal(OrMatchedData(a0, "PacketDeliver"),
                                         "PacketDeliver"),
                       "PacketTrack")
              ELSE a0
        a2 == DataType_needs_update(self, a1)
        a3 == DataType_track_packets(self, a2)
        a4 == DataType_track_sessions(self, a3, sub_level)
        a5 == DataType_conn_deliver(self, sub_level, a4)
    IN  IF sub_level = "Session" THEN OrMatchedData(a5, "SessionDeliver") ELSE a5

\* DataType::session_filter returning the accumulated actions whole, if_matching
\* included
DataType_session_filter_keep_matching(self, sub_level) ==
    IF self.level = "Packet" /\ sub_level # "Packet"
    THEN AssertionPanic
    ELSE
    LET a0 == MatchingActions_new
        a1 == IF self.level = "Packet"
              THEN OrMatchedTerminal(OrMatchedData(a0, "PacketDeliver"), "PacketDeliver")
              ELSE a0
        a2 == DataType_needs_update(self, a1)
        a3 == DataType_track_packets(self, a2)
        a4 == DataType_track_sessions(self, a3, sub_level)
    IN  DataType_conn_deliver(self, sub_level, a4)

\* DataType::session_filter: actions when the session is fully parsed
DataType_session_filter(self, sub_level) ==
    IF self.level = "Packet" /\ sub_level # "Packet"
    THEN AssertionPanic
    ELSE
    LET a0 == MatchingActions_new
        a1 == IF self.level = "Packet"
              THEN OrMatchedTerminal(OrMatchedData(a0, "PacketDeliver"), "PacketDeliver")
              ELSE a0
        a2 == DataType_needs_update(self, a1)
        a3 == DataType_track_packets(self, a2)
        a4 == DataType_track_sessions(self, a3, sub_level)
        a5 == DataType_conn_deliver(self, sub_level, a4)
    IN  [if_matched |-> a5.if_matched, if_matching |-> Actions_new]

(***************************************************************************)
(* SubscriptionSpec: pure methods over (datatypes, level)                  *)
(***************************************************************************)
\* self.datatypes.iter().filter(|d| matches!(d.level, l)).count()
CountLevel(dts, l) == Cardinality({i \in DOMAIN dts : dts[i].level = l})

\* validate_spec without the last assertion (at most one Session-level datatype)
validate_spec_no_session_check(dts, lvl) ==
    IF lvl = "Packet"
    THEN IF Len(dts) > 1
         THEN IF ~(CountLevel(dts, "Packet") = 1)
              THEN "Must have one packet-level datatype in packet-level subscription"
              ELSE IF ~(CountLevel(dts, "Static") >= Len(dts) - 1)
                   THEN "Non-static datatype in packet-level subscription"
                   ELSE "ok"
         ELSE "ok"
    ELSE IF ~(CountLevel(dts, "Packet") = 0)
         THEN "Packet-level datatype in non-packet subscription"
         ELSE "ok"

\* validate_spec without the assertion of the non-Packet branch (no Packet-level
\* datatype in a non-packet subscription)
validate_spec_no_nonpacket_check(dts, lvl) ==
    LET first ==
            IF lvl = "Packet"
            THEN IF Len(dts) > 1
                 THEN IF ~(CountLevel(dts, "Packet") = 1)
                      THEN "Must have one packet-level datatype in packet-level subscription"
                      ELSE IF ~(CountLevel(dts, "Static") >= Len(dts) - 1)
                           THEN "Non-static datatype in packet-level subscription"
                           ELSE "ok"
                 ELSE "ok"
            ELSE "ok"
    IN  IF first # "ok"
        THEN first
        ELSE IF ~(CountLevel(dts, "Session") <= 1)
             THEN "Multiple session-level datatypes in subscription"
             ELSE "ok"

\* SubscriptionSpec::validate_spec: "ok", or the message of the first
\* assertion that fails
validate_spec(dts, lvl) ==
    LET first ==
            IF lvl = "Packet"
            THEN IF Len(dts) > 1
                 THEN IF ~(CountLevel(dts, "Packet") = 1)
                      THEN "Must have one packet-level datatype in packet-level subscription"
                      ELSE IF ~(CountLevel(dts, "Static") >= Len(dts) - 1)
                           THEN "Non-static datatype in packet-level subscription"
                           ELSE "ok"
                 ELSE "ok"
            ELSE IF ~(CountLevel(dts, "Packet") = 0)
                 THEN "Packet-level datatype in non-packet subscription"
                 ELSE "ok"
    IN  IF first # "ok"
        THEN first
        ELSE IF ~(CountLevel(dts, "Session") <= 1)
             THEN "Multiple session-level datatypes in subscription"
             ELSE "ok"

\* self.datatypes.iter().any(|d| d.should_deliver(&filter_layer, pred, &self.level)),
\* scanning from index i and stopping at the first hit
RECURSIVE AnyShouldDeliver(_, _, _, _, _)
AnyShouldDeliver(dts, lvl, filter_layer, pred, i) ==
    IF i > Len(dts) THEN FALSE
    ELSE IF DataType_should_deliver(dts[i], filter_layer, pred, lvl) THEN TRUE
    ELSE AnyShouldDeliver(dts, lvl, filter_layer, pred, i + 1)

\* self.datatypes.iter().all(|d| d.can_deliver(&filter_layer, pred)),
\* scanning from index i and stopping at the first miss
RECURSIVE AllCanDeliver(_, _, _, _)
AllCanDeliver(dts, filter_layer, pred, i) ==
    IF i > Len(dts) THEN TRUE
    ELSE IF ~DataType_can_deliver(dts[i], filter_layer, pred) THEN FALSE
    ELSE AllCanDeliver(dts, filter_layer, pred, i + 1)

\* SubscriptionSpec::should_deliver joining the trigger and the gate with `||`
SubscriptionSpec_should_deliver_or(dts, lvl, filter_layer, pred) ==
    AnyShouldDeliver(dts, lvl, filter_layer, pred, 1)
        \/ AllCanDeliver(dts, filter_layer, pred, 1)

\* SubscriptionSpec::should_deliver
SubscriptionSpec_should_deliver(dts, lvl, filter_layer, pred) ==
    AnyShouldDeliver(dts, lvl, filter_layer, pred, 1)
        /\ AllCanDeliver(dts, filter_layer, pred, 1)

\* SubscriptionSpec::as_str: "callback(datatype, datatype, ...)"; the names
\* in insertion order stand for the joined string
SubscriptionSpec_as_str(dts) == [i \in DOMAIN dts |-> dts[i].as_str]

\* SubscriptionSpec::packet_continue
SubscriptionSpec_packet_continue(lvl) ==
    IF lvl = "Packet"
    THEN [if_matched |-> Actions_new,
          if_matching |-> [Actions_new EXCEPT !.data = @ \cup {"PacketContinue"}]]
    ELSE [if_matched |-> [Actions_new EXCEPT !.data = @ \cup {"PacketContinue"}],
          if_matching |-> [Actions_new EXCEPT !.data = @ \cup {"PacketContinue"}]]

\* `for datatype in &self.datatypes { actions.push(&datatype.packet_filter(&self.level)) }`
\* from index i on; a panicking datatype aborts the loop
RECURSIVE FoldPacketFilter(_, _, _, _)
FoldPacketFilter(dts, lvl, actions, i) ==
    IF i > Len(dts) THEN actions
    ELSE LET r == DataType_packet_filter(dts[i], lvl)
         IN  IF r = AssertionPanic THEN AssertionPanic
             ELSE FoldPacketFilter(dts, lvl, MatchingActions_push(actions, r), i + 1)

\* SubscriptionSpec::packet_filter
SubscriptionSpec_packet_filter(dts, lvl) ==
    LET actions == FoldPacketFilter(dts, lvl, MatchingActions_new, 1)
    IN  IF actions = AssertionPanic THEN AssertionPanic
        ELSE OrMatchingData(actions, "ProtoFilter")

\* the loop of SubscriptionSpec::proto_filter
RECURSIVE FoldProtoFilter(_, _, _, _)
FoldProtoFilter(dts, lvl, actions, i) ==
    IF i > Len(dts) THEN actions
    ELSE LET r == DataType_proto_filter(dts[i], lvl)
         IN  IF r = AssertionPanic THEN AssertionPanic
             ELSE FoldProtoFilter(dts, lvl, MatchingActions_push(actions, r), i + 1)

\* SubscriptionSpec::proto_filter
SubscriptionSpec_proto_filter(dts, lvl) ==
    LET actions == FoldProtoFilter(dts, lvl, MatchingActions_new, 1)
    IN  IF actions = AssertionPanic THEN AssertionPanic
        ELSE LET a1 == IF lvl = "Static"
                       THEN OrMatchedTerminal(OrMatchedData(actions, "ConnDeliver"),
                                              "ConnDeliver")
                       ELSE actions
             IN  OrMatchingData(a1, "SessionFilter")

\* the loop of SubscriptionSpec::session_filter
RECURSIVE FoldSessionFilter(_, _, _, _)
FoldSessionFilter(dts, lvl, actions, i) ==
    IF i > Len(dts) THEN actions
    ELSE LET r == DataType_session_filter(dts[i], lvl)
         IN  IF r = AssertionPanic THEN AssertionPanic
             ELSE FoldSessionFilter(dts, lvl, MatchingActions_push(actions, r), i + 1)

\* SubscriptionSpec::session_filter
SubscriptionSpec_session_filter(dts, lvl) ==
    LET actions == FoldSessionFilter(dts, lvl, MatchingActions_new, 1)
    IN  IF actions = AssertionPanic THEN AssertionPanic
        ELSE IF lvl = "Static"
             THEN OrMatchedTerminal(OrMatchedData(actions, "ConnDeliver"), "ConnDeliver")
             ELSE actions

\* SubscriptionSpec::with_term_filter caching the session whenever the predicate
\* is a session predicate, whatever the aggregate level
SubscriptionSpec_with_term_filter_any_level(dts, lvl, filter_layer, pred) ==
    CASE filter_layer = "PacketContinue" -> SubscriptionSpec_packet_continue(lvl).if_matched
      [] filter_layer = "Packet" ->
            LET m == SubscriptionSpec_packet_filter(dts, lvl)
            IN  IF m = AssertionPanic THEN AssertionPanic ELSE m.if_matched
      [] filter_layer = "Protocol" ->
            LET m == SubscriptionSpec_proto_filter(dts, lvl)
            IN  IF m = AssertionPanic THEN AssertionPanic ELSE m.if_matched
      [] filter_layer = "Session" ->
            LET m == SubscriptionSpec_session_filter(dts, lvl)
            IN  IF m = AssertionPanic THEN AssertionPanic
                ELSE IF pred.on_session
                     THEN [m.if_matched EXCEPT !.data = @ \cup {"SessionTrack"}]
                     ELSE m.if_matched
      [] filter_layer \in {"ConnectionDeliver", "PacketDeliver"} -> Actions_new

\* SubscriptionSpec::with_term_filter
SubscriptionSpec_with_term_filter(dts, lvl, filter_layer, pred) ==
    CASE filter_layer = "PacketContinue" -> SubscriptionSpec_packet_continue(lvl).if_matched
      [] filter_layer = "Packet" ->
            LET m == SubscriptionSpec_packet_filter(dts, lvl)
            IN  IF m = AssertionPanic THEN AssertionPanic ELSE m.if_matched
      [] filter_layer = "Protocol" ->
            LET m == SubscriptionSpec_proto_filter(dts, lvl)
            IN  IF m = AssertionPanic THEN AssertionPanic ELSE m.if_matched
      [] filter_layer = "Session" ->
            LET m == SubscriptionSpec_session_filter(dts, lvl)
            IN  IF m = AssertionPanic THEN AssertionPanic
                ELSE IF lvl = "Connection" /\ pred.on_session
                     THEN [m.if_matched EXCEPT !.data = @ \cup {"SessionTrack"}]
                     ELSE m.if_matched
      [] filter_layer \in {"ConnectionDeliver", "PacketDeliver"} -> Actions_new

\* SubscriptionSpec::with_nonterm_filter
SubscriptionSpec_with_nonterm_filter(dts, lvl, filter_layer) ==
    CASE filter_layer = "PacketContinue" -> SubscriptionSpec_packet_continue(lvl).if_matching
      [] filter_layer = "Packet" ->
            LET m == SubscriptionSpec_packet_filter(dts, lvl)
            IN  IF m = AssertionPanic THEN AssertionPanic ELSE m.if_matching
      [] filter_layer = "Protocol" ->
            LET m == SubscriptionSpec_proto_filter(dts, lvl)
            IN  IF m = AssertionPanic THEN AssertionPanic ELSE m.if_matching
      [] filter_layer = "Session" ->
            LET m == SubscriptionSpec_session_filter(dts, lvl)
            IN  IF m = AssertionPanic THEN AssertionPanic ELSE m.if_matching
      [] filter_layer \in {"ConnectionDeliver", "PacketDeliver"} -> Actions_new

(***************************************************************************)
(* State                                                                   *)
(***************************************************************************)
VARIABLES
    datatypes,  \* SubscriptionSpec.datatypes: Vec<DataType>
    level,      \* SubscriptionSpec.level
    pred,       \* the filter predicate the subscription is queried with
    out         \* the last call on the subscription and what it returned

vars == <<datatypes, level, pred, out>>

\* update_level as a maximum in the declaration order of the enum
\* (Packet, Connection, Session, Static)
update_level_declaration_order(self_level, next_level) ==
    IF self_level = "Static" \/ next_level = "Static" THEN "Static"
    ELSE IF self_level = "Session" \/ next_level = "Session" THEN "Session"
    ELSE IF self_level = "Connection" \/ next_level = "Connection" THEN "Connection"
    ELSE "Packet"

\* SubscriptionSpec::update_level: latest delivery always takes priority
update_level(self_level, next_level) ==
    IF self_level = "Connection" \/ next_level = "Connection" THEN "Connection"
    ELSE IF self_level = "Session" \/ next_level = "Session" THEN "Session"
    ELSE IF self_level = "Packet" \/ next_level = "Packet" THEN "Packet"
    ELSE self_level

\* SubscriptionSpec::new: no datatypes, level Static
Init ==
    /\ datatypes = <<>>
    /\ level = "Static"
    /\ pred \in Predicate
    /\ out = [op |-> "new"]

\* SubscriptionSpec::add_datatype
AddDatatype(datatype) ==
    /\ Len(datatypes) < MaxDatatypes
    /\ level' = update_level(level, datatype.level)
    /\ datatypes' = Append(datatypes, datatype)
    /\ out' = [op |-> "add_datatype"]
    /\ UNCHANGED pred

\* SubscriptionSpec::validate_spec(&self): returns, or panics with a message
ValidateSpec ==
    /\ out' = [op |-> "validate_spec", ret |-> validate_spec(datatypes, level)]
    /\ UNCHANGED <<datatypes, level, pred>>

\* SubscriptionSpec::as_str(&self)
AsStr ==
    /\ out' = [op |-> "as_str", ret |-> SubscriptionSpec_as_str(datatypes)]
    /\ UNCHANGED <<datatypes, level, pred>>

\* SubscriptionSpec::should_deliver(&self, filter_layer, pred)
ShouldDeliver(filter_layer) ==
    /\ out' = [op |-> "should_deliver", filter_layer |-> filter_layer,
               ret |-> SubscriptionSpec_should_deliver(datatypes, level, filter_layer, pred)]
    /\ UNCHANGED <<datatypes, level, pred>>

\* SubscriptionSpec::packet_continue(&self)
PacketContinue ==
    /\ out' = [op |-> "packet_continue", ret |-> SubscriptionSpec_packet_continue(level)]
    /\ UNCHANGED <<datatypes, level, pred>>

\* SubscriptionSpec::packet_filter(&self)
PacketFilter ==
    /\ out' = [op |-> "packet_filter",
               ret |-> SubscriptionSpec_packet_filter(datatypes, level)]
    /\ UNCHANGED <<datatypes, level, pred>>

\* SubscriptionSpec::proto_filter(&self)
ProtoFilter ==
    /\ out' = [op |-> "proto_filter",
               ret |-> SubscriptionSpec_proto_filter(datatypes, level)]
    /\ UNCHANGED <<datatypes, level, pred>>

\* SubscriptionSpec::session_filter(&self)
SessionFilter ==
    /\ out' = [op |-> "session_filter",
               ret |-> SubscriptionSpec_session_filter(datatypes, level)]
    /\ UNCHANGED <<datatypes, level, pred>>

\* SubscriptionSpec::with_term_filter(&self, filter_layer, pred)
WithTermFilter(filter_layer) ==
    /\ out' = [op |-> "with_term_filter", filter_layer |-> filter_layer,
               ret |-> SubscriptionSpec_with_term_filter(datatypes, level,
                                                         filter_layer, pred)]
    /\ UNCHANGED <<datatypes, level, pred>>

\* SubscriptionSpec::with_nonterm_filter(&self, filter_layer)
WithNontermFilter(filter_layer) ==
    /\ out' = [op |-> "with_nonterm_filter", filter_layer |-> filter_layer,
               ret |-> SubscriptionSpec_with_nonterm_filter(datatypes, level, filter_layer)]
    /\ UNCHANGED <<datatypes, level, pred>>

Next ==
    \/ \E datatype \in DataTypes : AddDatatype(datatype)
    \/ ValidateSpec
    \/ AsStr
    \/ \E filter_layer \in FilterLayer : ShouldDeliver(filter_layer)
    \/ PacketContinue
    \/ PacketFilter
    \/ ProtoFilter
    \/ SessionFilter
    \/ \E filter_layer \in FilterLayer : WithTermFilter(filter_layer)
    \/ \E filter_layer \in FilterLayer : WithNontermFilter(filter_layer)

Spec == Init /\ [][Next]_vars

(***************************************************************************)
(* Properties                                                              *)
(***************************************************************************)
\* The subscription passes validate_spec
Validated == validate_spec(datatypes, level) = "ok"

\* Some datatype of the subscription is Packet-level
HasPacketDatatype == \E i \in DOMAIN datatypes : datatypes[i].level = "Packet"

\* The five ordered stages of one connection's lifecycle
OrderedStages == {"PacketContinue", "Packet", "Protocol", "Session", "ConnectionDeliver"}

\* The ordered stages at which the subscription is delivered under `pred`
DeliveryStages ==
    {s \in OrderedStages : SubscriptionSpec_should_deliver(datatypes, level, s, pred)}

\* How many of on_packet, on_proto, on_session the predicate reports
Capabilities ==
    Cardinality({c \in {"on_packet", "on_proto", "on_session"} : pred[c]})

Rank(l) ==
    CASE l = "Connection" -> 3 [] l = "Session" -> 2 [] l = "Packet" -> 1 [] l = "Static" -> 0

\* The highest-precedence level among the datatypes added so far (Static if none)
HighestLevel ==
    LET present == {datatypes[i].level : i \in DOMAIN datatypes} \cup {"Static"}
    IN  CHOOSE l \in present : \A m \in present : Rank(m) <= Rank(l)

\* C2: the subscription level equals the highest-precedence level among the
\* added datatypes (a function of which datatypes were added, not of their
\* order); no add_datatype lowers it, and once Connection it stays Connection.
C2_LevelIsHighestAndSticky ==
    /\ [](level = HighestLevel)
    /\ [][/\ Rank(level') >= Rank(level)
          /\ (level = "Connection" => level' = "Connection")]_vars

C2_Witness ==
    /\ out.op = "add_datatype"
    /\ Len(datatypes) = 3
    /\ datatypes[1].level = "Session"
    /\ datatypes[2].level = "Connection"
    /\ datatypes[3].level = "Packet"
    /\ level = "Connection"

\* Invariant 1 of the data model is violated
PacketInvariantViolated ==
    /\ level = "Packet"
    /\ \/ CountLevel(datatypes, "Packet") > 1
       \/ \E i \in DOMAIN datatypes : datatypes[i].level \notin {"Packet", "Static"}

\* Invariant 2 of the data model is violated
NonPacketInvariantViolated ==
    /\ level # "Packet"
    /\ \E i \in DOMAIN datatypes : datatypes[i].level = "Packet"

\* Invariant 3 of the data model is violated
SessionInvariantViolated == CountLevel(datatypes, "Session") > 1

\* C3: validate_spec fails if and only if one of the three structural
\* invariants is violated; it accepts {1 Packet, N Static} and {1 Session},
\* rejects {1 Packet, 1 Connection} and {2 Session}, and leaves the
\* subscription as it found it.
C3_ValidateSpecIffInvariantViolated ==
    /\ [](/\ ~Validated <=> \/ PacketInvariantViolated
                            \/ NonPacketInvariantViolated
                            \/ SessionInvariantViolated
          /\ (/\ CountLevel(datatypes, "Packet") = 1
              /\ CountLevel(datatypes, "Static") = Len(datatypes) - 1) => Validated
          /\ (Len(datatypes) = 1 /\ CountLevel(datatypes, "Session") = 1) => Validated
          /\ (/\ Len(datatypes) = 2
              /\ CountLevel(datatypes, "Packet") = 1
              /\ CountLevel(datatypes, "Connection") = 1) => ~Validated
          /\ (Len(datatypes) = 2 /\ CountLevel(datatypes, "Session") = 2) => ~Validated
          /\ out.op = "validate_spec" => out.ret = validate_spec(datatypes, level))
    /\ [][out'.op = "validate_spec" => (datatypes' = datatypes /\ level' = level)]_vars

C3_Witness ==
    /\ out.op = "validate_spec"
    /\ out.ret = "Multiple session-level datatypes in subscription"
    /\ level = "Connection"
    /\ ~PacketInvariantViolated
    /\ ~NonPacketInvariantViolated

\* C4: on a subscription that passes validate_spec no stage fold, and so no
\* pipeline entry point at any stage, trips the assertion that a Packet-level
\* datatype is folded under aggregate level Packet; the assertion trips only
\* on subscriptions validate_spec rejects.
C4_NoAssertionWhenValidated ==
    /\ (/\ out.op \in {"packet_filter", "proto_filter", "session_filter",
                       "with_term_filter", "with_nonterm_filter"}
        /\ Validated) => out.ret # AssertionPanic
    /\ (out.op \in {"packet_filter", "proto_filter", "session_filter"}
            /\ HasPacketDatatype /\ ~Validated /\ level # "Packet") =>
          out.ret = AssertionPanic

C4_Witness ==
    /\ Validated
    /\ HasPacketDatatype
    /\ Len(datatypes) = 3
    /\ out.op = "session_filter"
    /\ out.ret # AssertionPanic

\* C5: SubscriptionSpec::should_deliver is true exactly when some datatype's
\* should_deliver is true at the stage and every datatype's can_deliver is;
\* so it is false at every stage for a subscription with no datatypes.
C5_ShouldDeliverIsAnyAndAll ==
    out.op = "should_deliver" =>
        /\ out.ret <=>
              /\ \E i \in DOMAIN datatypes :
                    DataType_should_deliver(datatypes[i], out.filter_layer, pred, level)
              /\ \A i \in DOMAIN datatypes :
                    DataType_can_deliver(datatypes[i], out.filter_layer, pred)
        /\ datatypes = <<>> => out.ret = FALSE

C5_Witness ==
    /\ out.op = "should_deliver"
    /\ out.ret = FALSE
    /\ \E i \in DOMAIN datatypes :
          DataType_should_deliver(datatypes[i], out.filter_layer, pred, level)
    /\ \E i \in DOMAIN datatypes :
          ~DataType_can_deliver(datatypes[i], out.filter_layer, pred)

\* The should_deliver decision table, by datatype level
ShouldDeliverTable(dl, layer, p, aggregate) ==
    \/ /\ dl = "Packet"
       /\ \/ layer = "PacketContinue" /\ p.on_packet
          \/ layer = "Protocol" /\ p.on_proto
          \/ layer = "Session" /\ p.on_session
          \/ layer = "PacketDeliver"
    \/ dl = "Connection" /\ layer = "ConnectionDeliver"
    \/ dl = "Session" /\ layer = "Session"
    \/ /\ dl = "Static"
       /\ aggregate = "Static"
       /\ \/ p.on_packet /\ layer = "Packet"
          \/ ~p.on_packet /\ layer = "ConnectionDeliver"

\* The can_deliver decision table, by datatype level
CanDeliverTable(dl, layer, p) ==
    \/ /\ dl = "Packet"
       /\ \/ layer = "PacketContinue" /\ p.on_packet
          \/ layer = "Protocol" /\ (p.on_proto \/ p.on_packet)
          \/ layer \in {"Packet", "Session", "ConnectionDeliver", "PacketDeliver"}
    \/ dl = "Connection" /\ layer = "ConnectionDeliver"
    \/ dl = "Session" /\ layer \in {"Session", "ConnectionDeliver"}
    \/ dl = "Static"

\* C6: for each default datatype of the subscription, at whichever of the six
\* filter layers should_deliver is asked, DataType::should_deliver and
\* DataType::can_deliver return the value of the decision tables.
C6_DecisionTables ==
    out.op = "should_deliver" =>
        \A i \in DOMAIN datatypes :
            datatypes[i] \in DefaultDataTypes =>
                /\ DataType_should_deliver(datatypes[i], out.filter_layer, pred, level)
                      = ShouldDeliverTable(datatypes[i].level, out.filter_layer, pred, level)
                /\ DataType_can_deliver(datatypes[i], out.filter_layer, pred)
                      = CanDeliverTable(datatypes[i].level, out.filter_layer, pred)

C6_Witness ==
    /\ datatypes = <<new_default_static("Static")>>
    /\ level = "Static"
    /\ pred.on_packet
    /\ out.op = "should_deliver"
    /\ out.filter_layer = "Packet"
    /\ out.ret = TRUE

\* The subscription holds a Packet-level datatype under a non-Packet level,
\* the shape on which every datatype fold aborts
FoldAborts == HasPacketDatatype /\ level # "Packet"

\* C7 as stated: on every subscription shape session_filter returns a
\* MatchingActions whose if_matching is empty, and with_nonterm_filter(Session)
\* returns the empty action set.
C7_SessionFilterReturnsEmpty_AsStated ==
    /\ out.op = "session_filter" =>
          /\ out.ret # AssertionPanic
          /\ out.ret.if_matching.data = {}
          /\ out.ret.if_matching.terminal_actions = {}
    /\ (out.op = "with_nonterm_filter" /\ out.filter_layer = "Session") =>
          /\ out.ret # AssertionPanic
          /\ out.ret.data = {}
          /\ out.ret.terminal_actions = {}

\* C7 (amended): session_filter returns on every subscription shape but those
\* holding a Packet-level datatype under a non-Packet aggregate level, where it
\* aborts on its assertion; whenever it returns, if_matching is empty in data
\* and in terminal_actions, and so is with_nonterm_filter(Session).
C7_SessionFilterIfMatchingEmpty ==
    /\ out.op = "session_filter" =>
          /\ out.ret = AssertionPanic <=> FoldAborts
          /\ out.ret # AssertionPanic =>
                /\ out.ret.if_matching.data = {}
                /\ out.ret.if_matching.terminal_actions = {}
    /\ (out.op = "with_nonterm_filter" /\ out.filter_layer = "Session") =>
          /\ out.ret = AssertionPanic <=> FoldAborts
          /\ out.ret # AssertionPanic =>
                /\ out.ret.data = {}
                /\ out.ret.terminal_actions = {}

C7_Witness ==
    /\ out.op = "session_filter"
    /\ out.ret # AssertionPanic
    /\ ~Validated
    /\ \E i \in DOMAIN datatypes : datatypes[i].track_packets
    /\ "PacketTrack" \in out.ret.if_matched.data
    /\ out.ret.if_matching = Actions_new

\* Some datatype of the subscription has needs_update
SomeNeedsUpdate == \E i \in DOMAIN datatypes : datatypes[i].needs_update

\* C8: on a subscription that passes validate_spec, packet_filter's if_matching
\* holds ProtoFilter and proto_filter's holds SessionFilter, and both hold
\* UpdatePDU when some datatype has needs_update; [default session, default
\* connection] is such a subscription, of level Connection.
C8_ParsingContinuesWhileMatching ==
    /\ (out.op = "packet_filter" /\ Validated) =>
          /\ out.ret # AssertionPanic
          /\ "ProtoFilter" \in out.ret.if_matching.data
          /\ SomeNeedsUpdate => "UpdatePDU" \in out.ret.if_matching.data
    /\ (out.op = "proto_filter" /\ Validated) =>
          /\ out.ret # AssertionPanic
          /\ "SessionFilter" \in out.ret.if_matching.data
          /\ SomeNeedsUpdate => "UpdatePDU" \in out.ret.if_matching.data
    /\ datatypes = <<new_default_session("Session", <<>>),
                     new_default_connection("Connection")>> =>
          /\ level = "Connection"
          /\ Validated
          /\ SomeNeedsUpdate

C8_Witness ==
    /\ datatypes = <<new_default_session("Session", <<>>),
                     new_default_connection("Connection")>>
    /\ out.op = "proto_filter"
    /\ {"SessionFilter", "UpdatePDU"} \subseteq out.ret.if_matching.data

\* C9: on a subscription that passes validate_spec and holds a Packet-level
\* datatype, the aggregate level is Packet, proto_filter's if_matched holds
\* PacketDeliver in data and in terminal_actions, and its if_matching holds
\* PacketTrack.
C9_PacketDeliverAndTrack ==
    (out.op = "proto_filter" /\ Validated /\ HasPacketDatatype) =>
        /\ level = "Packet"
        /\ out.ret # AssertionPanic
        /\ "PacketDeliver" \in out.ret.if_matched.data
        /\ "PacketDeliver" \in out.ret.if_matched.terminal_actions
        /\ "PacketTrack" \in out.ret.if_matching.data

C9_Witness ==
    /\ out.op = "proto_filter"
    /\ datatypes = <<new_default_static("Static"), new_default_packet("Packet")>>
    /\ "PacketDeliver" \in out.ret.if_matched.terminal_actions
    /\ out.ret.if_matching.data = {"PacketTrack", "SessionFilter"}

\* The level of SubscriptionSpec::new after add_datatype of dts[i], dts[i+1], ...
RECURSIVE LevelAfterAdds(_, _, _)
LevelAfterAdds(dts, lvl, i) ==
    IF i > Len(dts) THEN lvl
    ELSE LevelAfterAdds(dts, update_level(lvl, dts[i].level), i + 1)

\* The datatypes of the subscription added in the order f
Reordered(f) == [i \in DOMAIN datatypes |-> datatypes[f[i]]]

\* The per-datatype stage results of the subscription that are MatchingActions
StageResults ==
    {r \in UNION {{DataType_packet_filter(datatypes[i], level),
                   DataType_proto_filter(datatypes[i], level),
                   DataType_session_filter(datatypes[i], level)} :
                  i \in DOMAIN datatypes} : r # AssertionPanic}

\* C10: a subscription built by adding the same datatypes in any other order
\* has the same aggregate level, the same validate_spec outcome, the same
\* should_deliver at every stage and the same outcome of packet_continue,
\* packet_filter, proto_filter and session_filter; MatchingActions::push is
\* commutative and associative on the per-datatype results it folds.
C10_OrderIndependent ==
    out.op \in {"new", "add_datatype"} =>
        /\ \A f \in Permutations(DOMAIN datatypes) :
              LET dts == Reordered(f)
                  lvl == LevelAfterAdds(dts, "Static", 1)
              IN  /\ lvl = level
                  /\ validate_spec(dts, lvl) = validate_spec(datatypes, level)
                  /\ \A l \in FilterLayer :
                        SubscriptionSpec_should_deliver(dts, lvl, l, pred)
                            = SubscriptionSpec_should_deliver(datatypes, level, l, pred)
                  /\ SubscriptionSpec_packet_continue(lvl)
                        = SubscriptionSpec_packet_continue(level)
                  /\ SubscriptionSpec_packet_filter(dts, lvl)
                        = SubscriptionSpec_packet_filter(datatypes, level)
                  /\ SubscriptionSpec_proto_filter(dts, lvl)
                        = SubscriptionSpec_proto_filter(datatypes, level)
                  /\ SubscriptionSpec_session_filter(dts, lvl)
                        = SubscriptionSpec_session_filter(datatypes, level)
        /\ \A a, b, c \in StageResults :
              /\ MatchingActions_push(a, b) = MatchingActions_push(b, a)
              /\ MatchingActions_push(MatchingActions_push(a, b), c)
                    = MatchingActions_push(a, MatchingActions_push(b, c))

C10_Witness ==
    /\ out.op = "add_datatype"
    /\ Len(datatypes) = 3
    /\ Validated
    /\ Cardinality({datatypes[i].level : i \in DOMAIN datatypes}) = 3
    /\ \E f \in Permutations(DOMAIN datatypes) :
          /\ SubscriptionSpec_as_str(Reordered(f)) # SubscriptionSpec_as_str(datatypes)
          /\ SubscriptionSpec_proto_filter(Reordered(f), level)
                = SubscriptionSpec_proto_filter(datatypes, level)

\* Position of a stage in the ordered sequence PacketContinue, Packet,
\* Protocol, Session, ConnectionDeliver
StageIndex(s) ==
    CASE s = "PacketContinue" -> 1
      [] s = "Packet" -> 2
      [] s = "Protocol" -> 3
      [] s = "Session" -> 4
      [] s = "ConnectionDeliver" -> 5

\* The ordered stages that come before stage s
EarlierStages(s) == {e \in OrderedStages : StageIndex(e) < StageIndex(s)}

\* Some datatype of the subscription cannot be delivered at stage s
SomeCannotDeliver(s) ==
    \E i \in DOMAIN datatypes : ~DataType_can_deliver(datatypes[i], s, pred)

\* should_deliver has just returned true at one of the five ordered stages of
\* a subscription that passes validate_spec
DeliveredAtOrderedStage ==
    /\ out.op = "should_deliver"
    /\ out.filter_layer \in OrderedStages
    /\ out.ret = TRUE
    /\ Validated

StageFold(l) ==
    CASE l = "PacketContinue" -> SubscriptionSpec_packet_continue(level)
      [] l = "Packet" -> SubscriptionSpec_packet_filter(datatypes, level)
      [] l = "Protocol" -> SubscriptionSpec_proto_filter(datatypes, level)
      [] l = "Session" -> SubscriptionSpec_session_filter(datatypes, level)

\* The flags with_term_filter adds to the fold's if_matched at stage l
TermAddition(l) ==
    IF l = "Session" /\ level = "Connection" /\ pred.on_session
    THEN {"SessionTrack"}
    ELSE {}

\* C12: with_term_filter and with_nonterm_filter are the if_matched and the
\* if_matching of the stage fold of the stage asked (aborting where the fold
\* aborts); with_term_filter adds SessionTrack to data at Session exactly when
\* the aggregate level is Connection and the predicate is a session predicate;
\* both are empty at ConnectionDeliver and PacketDeliver on every subscription.
C12_EntryPointsProjectFolds ==
    /\ out.op = "with_term_filter" =>
          IF out.filter_layer \in {"ConnectionDeliver", "PacketDeliver"}
          THEN out.ret.data = {} /\ out.ret.terminal_actions = {}
          ELSE IF StageFold(out.filter_layer) = AssertionPanic
               THEN out.ret = AssertionPanic
               ELSE /\ out.ret # AssertionPanic
                    /\ out.ret.data = StageFold(out.filter_layer).if_matched.data
                                        \cup TermAddition(out.filter_layer)
                    /\ out.ret.terminal_actions
                          = StageFold(out.filter_layer).if_matched.terminal_actions
    /\ out.op = "with_nonterm_filter" =>
          IF out.filter_layer \in {"ConnectionDeliver", "PacketDeliver"}
          THEN out.ret.data = {} /\ out.ret.terminal_actions = {}
          ELSE IF StageFold(out.filter_layer) = AssertionPanic
               THEN out.ret = AssertionPanic
               ELSE out.ret = StageFold(out.filter_layer).if_matching

C12_Witness ==
    /\ out.op = "with_term_filter"
    /\ out.filter_layer = "Session"
    /\ level = "Connection"
    /\ pred.on_session
    /\ Validated
    /\ "SessionTrack" \in out.ret.data
    /\ "SessionTrack" \notin StageFold("Session").if_matched.data
    /\ "SessionTrack" \notin out.ret.terminal_actions

\* The flags a returned MatchingActions requests on terminal match, in data or
\* in terminal_actions
MatchedFlags(m) == m.if_matched.data \cup m.if_matched.terminal_actions

\* C13: on a subscription that passes validate_spec, the if_matched of
\* packet_filter, proto_filter and session_filter requests delivery only in the
\* form of the aggregate level: no SessionDeliver or PacketDeliver at level
\* Connection, no ConnDeliver or PacketDeliver at level Session, no ConnDeliver
\* or SessionDeliver at level Packet.
C13_DeliveryMatchesLevel ==
    (out.op \in {"packet_filter", "proto_filter", "session_filter"} /\ Validated) =>
        /\ out.ret # AssertionPanic
        /\ level = "Connection" =>
              MatchedFlags(out.ret) \cap {"SessionDeliver", "PacketDeliver"} = {}
        /\ level = "Session" =>
              MatchedFlags(out.ret) \cap {"ConnDeliver", "PacketDeliver"} = {}
        /\ level = "Packet" =>
              MatchedFlags(out.ret) \cap {"ConnDeliver", "SessionDeliver"} = {}

====
